---- MODULE Spec2Model ----
(***************************************************************************)
(* Model of the Volcengine MaaS text-to-speech client                      *)
(* (src/models/volcengine_maas/models/tts/tts.py).                         *)
(*                                                                         *)
(* One behaviour is one call of _invoke_streaming: the caller pulls the    *)
(* generator, the generator runs one _get_audio_data coroutine per         *)
(* sentence, the coroutine opens a websocket, sends one request frame and  *)
(* feeds every received frame to _parse_response.  Frames are sequences of *)
(* bytes (0..255) and _parse_response is computed on the bytes as the code *)
(* computes it.  The server, the transport and the caller are the          *)
(* environment: they choose frames, failures and pulls.                    *)
(***************************************************************************)
EXTENDS Integers, Sequences, FiniteSets, TLC

VARIABLES
    sentences,      \* result of _split_text_into_sentences: sequence of texts
    gen,            \* generator object of _invoke_streaming
    idx,            \* position of `for sentence in sentences` (0: not entered)
    loop,           \* the asyncio event loop of lines 154/170
    pc,             \* position of the running _get_audio_data coroutine
    conns,          \* every websockets.connect attempt, in order
    rx,             \* frames ws.recv() returned in the current session
    audio_buffer,   \* the BytesIO of line 194 (bytes written so far)
    exc,            \* exception in flight inside / raised by the session
    returned,       \* values _get_audio_data returned, with their request text
    yielded,        \* buffers the generator yielded to the caller, in order
    requested,      \* number of next() calls the caller made
    failure,        \* exception that reached the caller of next()
    delivered,      \* frames the server delivered in this invocation
    call            \* who holds the generator: a consumer of _invoke, or
                    \* validate_credentials (before / after it returned)

vars == <<sentences, gen, idx, loop, pc, conns, rx, audio_buffer, exc,
          returned, yielded, requested, failure, delivered, call>>

-----------------------------------------------------------------------------
(* Bounds of the model *)

\* Longest sentence list the segmenter hands over.
MaxChunks == 2

\* Frames the server delivers during one invocation.
MaxFrames == 3

-----------------------------------------------------------------------------
(* Protocol constants *)

\* MESSAGE_TYPES keys
MSG_AUDIO == 11
MSG_FRONTEND == 12
MSG_ERROR == 15

\* MESSAGE_COMPRESSIONS key of gzip
COMPRESSION_GZIP == 1

\* DEFAULT_HEADER = bytearray(b'\x11\x10\x11\x00')
DEFAULT_HEADER == <<17, 16, 17, 0>>

-----------------------------------------------------------------------------
(* Bytes *)

Min(a, b) == IF a < b THEN a ELSE b

\* Python s[a:b] on a byte sequence (0-based, clipped to the length).
Slice(s, a, b) == SubSeq(s, a + 1, Min(b, Len(s)))

\* Python s[a:]
SliceFrom(s, a) == SubSeq(s, a + 1, Len(s))

\* int.from_bytes(s, "big", signed=False)
RECURSIVE FromBytesUnsigned(_)
FromBytesUnsigned(s) ==
    IF s = <<>> THEN 0
    ELSE 256 * FromBytesUnsigned(SubSeq(s, 1, Len(s) - 1)) + s[Len(s)]

\* The bytes of s inverted (one's complement).
Complement(s) == [i \in 1..Len(s) |-> 255 - s[i]]

\* Mutant of FromBytesSigned: the bytes are read little-endian.
FromBytesSignedLittle(s) ==
    LET r == [i \in 1..Len(s) |-> s[Len(s) + 1 - i]]
    IN  IF r # <<>> /\ r[1] >= 128
        THEN -FromBytesUnsigned(Complement(r)) - 1
        ELSE FromBytesUnsigned(r)

\* int.from_bytes(s, "big", signed=True): two's complement on Len(s) bytes,
\* u - 256^Len(s) when the top bit is set, computed as -(~u) - 1.
FromBytesSigned(s) ==
    IF s # <<>> /\ s[1] >= 128
    THEN -FromBytesUnsigned(Complement(s)) - 1
    ELSE FromBytesUnsigned(s)

\* n.to_bytes(4, 'big')
ToBytes4(n) ==
    <<(n \div 16777216) % 256, (n \div 65536) % 256, (n \div 256) % 256, n % 256>>

-----------------------------------------------------------------------------
(* Library conversions the code calls *)

\* gzip.compress / gzip.decompress, reduced to what the client depends on:
\* a compressed stream starts with the magic bytes 1f 8b and ends with a
\* trailer; decompression of a stream that does not start with the magic
\* raises BadGzipFile, of a stream cut before its trailer raises EOFError, of
\* an empty stream gives b"", and decompress(compress(d)) = d.  The deflate
\* body is carried as is and the trailer is one end-of-stream byte.
GZIP_MAGIC == <<31, 139>>

GZIP_TRAILER == <<0>>

GzipCompress(data) == GZIP_MAGIC \o data \o GZIP_TRAILER

\* The exception gzip.decompress(data) raises, "none" when it returns.
GzipError(data) ==
    IF data = <<>> THEN "none"
    ELSE IF Len(data) < 2 \/ SubSeq(data, 1, 2) # GZIP_MAGIC THEN "BadGzipFile"
    ELSE IF Len(data) < 3 \/ SubSeq(data, Len(data), Len(data)) # GZIP_TRAILER
    THEN "EOFError"
    ELSE "none"

GzipOk(data) == GzipError(data) = "none"

GzipDecompress(data) == IF data = <<>> THEN <<>> ELSE SubSeq(data, 3, Len(data) - 1)

\* Whether str(b, "utf-8") decodes b (well-formed UTF-8, RFC 3629).
IsCont(b) == b >= 128 /\ b <= 191

RECURSIVE Utf8Ok(_)
Utf8Ok(b) ==
    IF b = <<>> THEN TRUE
    ELSE LET n == Len(b)
             c == b[1]
         IN  IF c < 128 THEN Utf8Ok(SliceFrom(b, 1))
             ELSE IF c >= 194 /\ c <= 223
             THEN n >= 2 /\ IsCont(b[2]) /\ Utf8Ok(SliceFrom(b, 2))
             ELSE IF c >= 224 /\ c <= 239
             THEN /\ n >= 3 /\ IsCont(b[2]) /\ IsCont(b[3])
                  /\ (c = 224 => b[2] >= 160)
                  /\ (c = 237 => b[2] <= 159)
                  /\ Utf8Ok(SliceFrom(b, 3))
             ELSE IF c >= 240 /\ c <= 244
             THEN /\ n >= 4 /\ IsCont(b[2]) /\ IsCont(b[3]) /\ IsCont(b[4])
                  /\ (c = 240 => b[2] >= 144)
                  /\ (c = 244 => b[2] <= 143)
                  /\ Utf8Ok(SliceFrom(b, 4))
             ELSE FALSE

\* str(n) of a non-negative integer, as ASCII bytes.
RECURSIVE Decimal(_)
Decimal(n) ==
    IF n < 10 THEN <<48 + n>> ELSE Decimal(n \div 10) \o <<48 + (n % 10)>>

\* f"Error code {code}: {error_msg}", as the bytes of the text.
\* "Error code " = 69 114 114 111 114 32 99 111 100 101 32, ": " = 58 32
ErrorDescription(code, error_msg) ==
    <<69, 114, 114, 111, 114, 32, 99, 111, 100, 101, 32>>
        \o Decimal(code) \o <<58, 32>> \o error_msg

\* json.dumps(request_json) then str.encode: of the request only the text of
\* the sentence varies between sessions, so the encoding is {"text":<text>}
\* reduced to braces around the bytes of the text.
JsonDumps(text) == <<123>> \o text \o <<125>>

-----------------------------------------------------------------------------
(* Exceptions *)

NoExc == [kind |-> "none", description |-> <<>>]

Exc(k) == [kind |-> k, description |-> <<>>]

\* raise InvokeBadRequestError(f"Error code {code}: {error_msg}")
InvokeBadRequestError(code, error_msg) ==
    [kind |-> "InvokeBadRequestError",
     description |-> ErrorDescription(code, error_msg)]

-----------------------------------------------------------------------------
(* _parse_response *)

\* message_type = response[1] >> 4
MessageType(response) == response[2] \div 16

\* message_type_specific_flags = response[1] & 0x0f
MessageFlags(response) == response[2] % 16

\* message_compression = response[2] & 0x0f
MessageCompression(response) == response[3] % 16

\* header_size = response[0] & 0x0f
HeaderSize(response) == response[1] % 16

\* payload = response[header_size * 4:]
Payload(response) == SliceFrom(response, HeaderSize(response) * 4)

Returns(d, buf) == [raised |-> NoExc, done |-> d, buf |-> buf]

Raises(e, buf) == [raised |-> e, done |-> FALSE, buf |-> buf]

\* Mutant of ParseAudio: the end of the stream is read from the flags nibble
\* ("last message" / "sequence number < 0") instead of the sign.
ParseAudioFinalByFlags(response, buf) ==
    IF MessageFlags(response) = 0
    THEN Returns(FALSE, buf)
    ELSE Returns(MessageFlags(response) \in {2, 3},
                 buf \o SliceFrom(Payload(response), 8))

\* Mutant of ParseAudio: the buffer is replaced by the newest audio bytes.
ParseAudioOverwrite(response, buf) ==
    IF MessageFlags(response) = 0
    THEN Returns(FALSE, buf)
    ELSE Returns(FromBytesSigned(Slice(Payload(response), 0, 4)) < 0,
                 SliceFrom(Payload(response), 8))

\* Mutant of ParseAudio: the sequence number is read from every audio frame,
\* acknowledgments included.
ParseAudioNoAckCheck(response, buf) ==
    Returns(FromBytesSigned(Slice(Payload(response), 0, 4)) < 0,
            buf \o SliceFrom(Payload(response), 8))

\* The audio branch, lines 223-232.
ParseAudio(response, buf) ==
    IF MessageFlags(response) = 0
    THEN Returns(FALSE, buf)
    ELSE LET payload == Payload(response)
             sequence_number == FromBytesSigned(Slice(payload, 0, 4))
             audio_data == SliceFrom(payload, 8)
         IN  Returns(sequence_number < 0, buf \o audio_data)

\* Mutant of ParseError: the error is logged and reported as end of stream.
ParseErrorSilent(response, buf) == Returns(TRUE, buf)

\* Mutant of ParseError: a message that does not decompress is used as it is.
ParseErrorRawOnBadGzip(response, buf) ==
    LET payload == Payload(response)
        code == FromBytesUnsigned(Slice(payload, 0, 4))
        raw == SliceFrom(payload, 8)
        gz == MessageCompression(response) = COMPRESSION_GZIP
        error_msg == IF gz /\ GzipOk(raw) THEN GzipDecompress(raw) ELSE raw
    IN  IF ~Utf8Ok(error_msg) THEN Raises(Exc("UnicodeDecodeError"), buf)
        ELSE Raises(InvokeBadRequestError(code, error_msg), buf)

\* The error branch, lines 235-244.
ParseError(response, buf) ==
    LET payload == Payload(response)
        code == FromBytesUnsigned(Slice(payload, 0, 4))
        raw == SliceFrom(payload, 8)
        gz == MessageCompression(response) = COMPRESSION_GZIP
        error_msg == IF gz THEN GzipDecompress(raw) ELSE raw
    IN  IF gz /\ ~GzipOk(raw) THEN Raises(Exc(GzipError(raw)), buf)
        ELSE IF ~Utf8Ok(error_msg) THEN Raises(Exc("UnicodeDecodeError"), buf)
        ELSE Raises(InvokeBadRequestError(code, error_msg), buf)

\* The frontend branch, lines 247-252.
ParseFrontend(response, buf) ==
    LET msg_payload == SliceFrom(Payload(response), 4)
    IN  IF MessageCompression(response) = COMPRESSION_GZIP /\ ~GzipOk(msg_payload)
        THEN Raises(Exc(GzipError(msg_payload)), buf)
        ELSE Returns(TRUE, buf)

\* Mutant of ParseResponse: a message type the decoder does not know ends
\* the stream.
ParseResponseUnknownEnds(response, buf) ==
    IF Len(response) < 3 THEN Raises(Exc("IndexError"), buf)
    ELSE IF MessageType(response) = MSG_AUDIO THEN ParseAudio(response, buf)
    ELSE IF MessageType(response) = MSG_ERROR THEN ParseError(response, buf)
    ELSE IF MessageType(response) = MSG_FRONTEND THEN ParseFrontend(response, buf)
    ELSE Returns(TRUE, buf)

\* _parse_response(response, audio_buffer): what it returns or raises, and
\* the buffer afterwards.  Indexing response[1], response[2], response[0]
\* raises IndexError on a frame shorter than three bytes.
ParseResponse(response, buf) ==
    IF Len(response) < 3 THEN Raises(Exc("IndexError"), buf)
    ELSE IF MessageType(response) = MSG_AUDIO THEN ParseAudio(response, buf)
    ELSE IF MessageType(response) = MSG_ERROR THEN ParseError(response, buf)
    ELSE IF MessageType(response) = MSG_FRONTEND THEN ParseFrontend(response, buf)
    ELSE Returns(FALSE, buf)

-----------------------------------------------------------------------------
(* Frames the server may deliver *)

\* Two's complement of a signed 32-bit number, big-endian.
SignedBytes4(n) == IF n >= 0 THEN ToBytes4(n) ELSE Complement(ToBytes4(-n - 1))

\* A one-word server header: version 1, header size 1, JSON serialization.
ServerHeader(type, flags, compression) ==
    <<17, type * 16 + flags, 16 + compression, 0>>

\* Audio response: header, sequence number, declared size, audio bytes.
AudioFrame(flags, seq, size, audio) ==
    ServerHeader(MSG_AUDIO, flags, 0) \o SignedBytes4(seq) \o ToBytes4(size) \o audio

\* Error response: header, code, declared size, message bytes.
ErrorFrame(compression, code, msg) ==
    ServerHeader(MSG_ERROR, 0, compression) \o ToBytes4(code) \o ToBytes4(Len(msg)) \o msg

\* Frontend response: header, declared size, message bytes.
FrontendFrame(compression, msg) ==
    ServerHeader(MSG_FRONTEND, 0, compression) \o ToBytes4(Len(msg)) \o msg

AckFrames ==
    { ServerHeader(MSG_AUDIO, 0, 0),
      ServerHeader(MSG_AUDIO, 0, 0) \o SignedBytes4(-1) \o ToBytes4(1) \o <<160>> }

ContinuingAudioFrames ==
    { AudioFrame(1, 1, 1, <<161>>),
      AudioFrame(3, 2, 1, <<162>>),
      AudioFrame(2, 0, 0, <<>>) }

FinalAudioFrames ==
    { AudioFrame(3, -1, 1, <<163>>),
      AudioFrame(2, -2, 0, <<>>),
      AudioFrame(1, -3, 1, <<164>>),
      \* a two-word header: the payload starts at byte 8
      <<18, 177, 16, 0, 0, 0, 0, 0>> \o SignedBytes4(-1) \o ToBytes4(1) \o <<166>> }

\* Audio responses whose payload is shorter than it declares.
ShortAudioFrames ==
    { ServerHeader(MSG_AUDIO, 1, 0) \o <<0, 0>>,
      ServerHeader(MSG_AUDIO, 3, 0) \o <<255>>,
      AudioFrame(1, 3, 2, <<165>>) }

ErrorFrames ==
    { ErrorFrame(0, 45000001, <<110, 111>>),
      ErrorFrame(1, 3001, GzipCompress(<<110, 111>>)),
      ErrorFrame(1, 3001, <<110, 111>>),
      ErrorFrame(1, 3001, GZIP_MAGIC \o <<110, 111>>),
      ErrorFrame(0, 3001, <<255>>) }

FrontendFrames ==
    { FrontendFrame(0, <<109>>),
      FrontendFrame(1, GzipCompress(<<109>>)),
      FrontendFrame(1, <<109>>) }

UnknownFrames ==
    { ServerHeader(9, 0, 0),
      ServerHeader(9, 3, 1) \o SignedBytes4(-1) \o ToBytes4(1) \o <<167>> }

\* Frames too short to hold the three header bytes the decoder indexes.
TinyFrames == { <<17>> }

Frames ==
    AckFrames \cup ContinuingAudioFrames \cup FinalAudioFrames \cup ShortAudioFrames
        \cup ErrorFrames \cup FrontendFrames \cup UnknownFrames \cup TinyFrames

\* The sentence lists the segmenter may hand over: "A", "B", ... in order.
SentenceLists == { [k \in 1..n |-> <<64 + k>>] : n \in 0..MaxChunks }

-----------------------------------------------------------------------------
(* _get_audio_data *)

\* Mutant of FullClientRequest: the length field counts the JSON text, not
\* its compressed form.
FullClientRequestRawLength(text) ==
    DEFAULT_HEADER \o ToBytes4(Len(JsonDumps(text))) \o GzipCompress(JsonDumps(text))

\* Lines 183-190: the request frame built for one sentence.
FullClientRequest(text) ==
    LET payload_bytes == GzipCompress(JsonDumps(text))
    IN  DEFAULT_HEADER \o ToBytes4(Len(payload_bytes)) \o payload_bytes

\* The sentence the for loop holds (line 158), put into the request (line 162).
CurrentSentence == sentences[idx]

OpenConns == { j \in 1..Len(conns) : conns[j].st = "open" }

\* Entering _get_audio_data for the sentence at position i: lines 180-194.
StartSession(i) ==
    /\ idx' = i
    /\ pc' = "Idle"
    /\ audio_buffer' = <<>>
    /\ rx' = <<>>
    /\ exc' = NoExc

\* websockets.connect(...) succeeds: `async with` binds ws (line 196).
ConnectOk ==
    /\ gen = "running" /\ pc = "Idle"
    /\ conns' = Append(conns, [chunk |-> idx, text |-> CurrentSentence,
                               st |-> "open", sent |-> <<>>])
    /\ pc' = "Sending"
    /\ UNCHANGED <<sentences, gen, idx, loop, rx, audio_buffer, exc, returned,
                   yielded, requested, failure, delivered, call>>

\* websockets.connect(...) raises (refused, handshake rejected): nothing to
\* close, the exception leaves the coroutine.
ConnectRefused ==
    /\ gen = "running" /\ pc = "Idle"
    /\ conns' = Append(conns, [chunk |-> idx, text |-> CurrentSentence,
                               st |-> "refused", sent |-> <<>>])
    /\ exc' = Exc("ConnectionRefused")
    /\ pc' = "Failed"
    /\ UNCHANGED <<sentences, gen, idx, loop, rx, audio_buffer, returned,
                   yielded, requested, failure, delivered, call>>

\* Mutant of SendOk: header and payload go out as two frames.
SendOkTwoFrames ==
    /\ gen = "running" /\ pc = "Sending"
    /\ conns' = [conns EXCEPT ![Len(conns)].sent =
                    @ \o << SubSeq(FullClientRequest(conns[Len(conns)].text), 1, 8),
                            SliceFrom(FullClientRequest(conns[Len(conns)].text), 8) >>]
    /\ pc' = "Receiving"
    /\ UNCHANGED <<sentences, gen, idx, loop, rx, audio_buffer, exc, returned,
                   yielded, requested, failure, delivered, call>>

\* await ws.send(full_client_request) (line 197).
SendOk ==
    /\ gen = "running" /\ pc = "Sending"
    /\ conns' = [conns EXCEPT ![Len(conns)].sent =
                    Append(@, FullClientRequest(conns[Len(conns)].text))]
    /\ pc' = "Receiving"
    /\ UNCHANGED <<sentences, gen, idx, loop, rx, audio_buffer, exc, returned,
                   yielded, requested, failure, delivered, call>>

\* ws.send raises ConnectionClosed: the exception leaves the `async with` body.
SendFails ==
    /\ gen = "running" /\ pc = "Sending"
    /\ exc' = Exc("ConnectionClosed")
    /\ pc' = "Closing"
    /\ UNCHANGED <<sentences, gen, idx, loop, conns, rx, audio_buffer, returned,
                   yielded, requested, failure, delivered, call>>
\* Mutant of Deliver: the session gives up on a frame that brought no audio.
DeliverStopsWhenIdle(response) ==
    LET r == ParseResponse(response, audio_buffer)
    IN  /\ rx' = Append(rx, response)
        /\ audio_buffer' = r.buf
        /\ exc' = r.raised
        /\ pc' = IF r.raised # NoExc \/ r.done \/ r.buf = audio_buffer
                 THEN "Closing" ELSE "Receiving"

\* ws.recv() returns `response` and _parse_response decodes it (lines
\* 200-203): the loop breaks on True, an exception leaves the block.
Deliver(response) ==
    LET r == ParseResponse(response, audio_buffer)
    IN  /\ rx' = Append(rx, response)
        /\ audio_buffer' = r.buf
        /\ exc' = r.raised
        /\ pc' = IF r.raised # NoExc \/ r.done THEN "Closing" ELSE "Receiving"

\* One turn of the receive loop (lines 199-203): recv a frame, parse it.
Recv ==
    /\ gen = "running" /\ pc = "Receiving"
    /\ delivered < MaxFrames
    /\ \E response \in Frames : Deliver(response)
    /\ delivered' = delivered + 1
    /\ UNCHANGED <<sentences, gen, idx, loop, conns, returned, yielded,
                   requested, failure, call>>

\* Mutant of RecvFails: a closed connection is taken for the end of the stream.
RecvFailsEndsStream ==
    /\ gen = "running" /\ pc = "Receiving"
    /\ pc' = "Closing"
    /\ UNCHANGED <<sentences, gen, idx, loop, conns, rx, audio_buffer, exc,
                   returned, yielded, requested, failure, delivered, call>>

\* ws.recv() raises ConnectionClosed: the transport closed or was reset.
RecvFails ==
    /\ gen = "running" /\ pc = "Receiving"
    /\ exc' = Exc("ConnectionClosed")
    /\ pc' = "Closing"
    /\ UNCHANGED <<sentences, gen, idx, loop, conns, rx, audio_buffer, returned,
                   yielded, requested, failure, delivered, call>>

\* Mutant of AExit: the connection is closed after the loop only, not when
\* an exception leaves the block.
AExitOnSuccessOnly ==
    /\ gen = "running" /\ pc = "Closing"
    /\ conns' = IF exc = NoExc THEN [conns EXCEPT ![Len(conns)].st = "closed"]
                ELSE conns
    /\ pc' = IF exc = NoExc THEN "Done" ELSE "Failed"
    /\ UNCHANGED <<sentences, gen, idx, loop, rx, audio_buffer, exc, returned,
                   yielded, requested, failure, delivered, call>>

\* Mutant of AExit: the connection is never closed.
AExitNoClose ==
    /\ gen = "running" /\ pc = "Closing"
    /\ pc' = IF exc = NoExc THEN "Done" ELSE "Failed"
    /\ UNCHANGED <<sentences, gen, idx, loop, conns, rx, audio_buffer, exc,
                   returned, yielded, requested, failure, delivered, call>>

\* Leaving the `async with` block (line 196): __aexit__ closes the connection,
\* after the break as after an exception, and does not swallow the exception.
AExit ==
    /\ gen = "running" /\ pc = "Closing"
    /\ conns' = [conns EXCEPT ![Len(conns)].st = "closed"]
    /\ pc' = IF exc = NoExc THEN "Done" ELSE "Failed"
    /\ UNCHANGED <<sentences, gen, idx, loop, rx, audio_buffer, exc, returned,
                   yielded, requested, failure, delivered, call>>

-----------------------------------------------------------------------------
(* _invoke_streaming *)

\* The for loop takes the sentence at position i, or ends: lines 157-170.
Iterate(i) ==
    IF i <= Len(sentences)
    THEN /\ StartSession(i)
         /\ gen' = "running"
         /\ loop' = "open"
    ELSE /\ gen' = "finished"
         /\ loop' = "closed"
         /\ UNCHANGED <<idx, pc, audio_buffer, rx, exc>>

\* Mutant of GenStart: the connection is opened once, ahead of the loop.
GenStartConnectFirst ==
    /\ call = "invoke"
    /\ gen = "created"
    /\ requested' = requested + 1
    /\ conns' = Append(conns, [chunk |-> 0, text |-> <<>>, st |-> "open", sent |-> <<>>])
    /\ Iterate(1)
    /\ UNCHANGED <<sentences, returned, yielded, failure, delivered, call>>

\* First next(): the body runs from line 128 to the first session.
GenStart ==
    /\ call = "invoke"
    /\ gen = "created"
    /\ requested' = requested + 1
    /\ Iterate(1)
    /\ UNCHANGED <<sentences, conns, returned, yielded, failure, delivered, call>>

\* A later next(): the generator resumes after `yield chunk` (line 168).
GenResume ==
    /\ gen = "suspended"
    /\ requested' = requested + 1
    /\ Iterate(idx + 1)
    /\ UNCHANGED <<sentences, conns, returned, yielded, failure, delivered, call>>

\* The caller stops consuming: close() (or collection) of the generator.  A
\* generator suspended at the yield runs its finally clause (line 170).
GenClose ==
    /\ call = "invoke"
    /\ gen \in {"created", "suspended"}
    /\ gen' = "closed"
    /\ loop' = IF gen = "suspended" THEN "closed" ELSE loop
    /\ UNCHANGED <<sentences, idx, pc, conns, rx, audio_buffer, exc, returned,
                   yielded, requested, failure, delivered, call>>

\* Mutant of SessionReturn: the buffers are handed over newest first.
SessionReturnNewestFirst ==
    /\ gen = "running" /\ pc = "Done"
    /\ returned' = Append(returned, [chunk |-> idx, text |-> conns[Len(conns)].text,
                                     audio |-> audio_buffer])
    /\ yielded' = <<audio_buffer>> \o yielded
    /\ gen' = "suspended"
    /\ UNCHANGED <<sentences, idx, loop, pc, conns, rx, audio_buffer, exc,
                   requested, failure, delivered, call>>

\* Mutant of SessionReturn: the next session is started ahead of the pull.
SessionReturnEager ==
    /\ gen = "running" /\ pc = "Done"
    /\ returned' = Append(returned, [chunk |-> idx, text |-> conns[Len(conns)].text,
                                     audio |-> audio_buffer])
    /\ yielded' = Append(yielded, audio_buffer)
    /\ gen' = "suspended"
    /\ idx' = IF idx < Len(sentences) THEN idx + 1 ELSE idx
    /\ pc' = IF idx < Len(sentences) THEN "Idle" ELSE pc
    /\ UNCHANGED <<sentences, loop, conns, rx, audio_buffer, exc,
                   requested, failure, delivered, call>>

\* run_until_complete returns audio_buffer.getvalue() (lines 205, 167) and
\* the generator yields it (line 168).
SessionReturn ==
    /\ gen = "running" /\ pc = "Done"
    /\ returned' = Append(returned, [chunk |-> idx, text |-> conns[Len(conns)].text,
                                     audio |-> audio_buffer])
    /\ yielded' = Append(yielded, audio_buffer)
    /\ gen' = "suspended"
    /\ UNCHANGED <<sentences, idx, loop, pc, conns, rx, audio_buffer, exc,
                   requested, failure, delivered, call>>

\* Mutant of SessionRaise: the failed chunk is skipped and the loop goes on.
SessionRaiseSkip ==
    /\ gen = "running" /\ pc = "Failed"
    /\ Iterate(idx + 1)
    /\ UNCHANGED <<sentences, conns, returned, yielded, requested, failure,
                   delivered, call>>

\* run_until_complete raises the session's exception: the finally clause
\* closes the loop and the exception reaches the caller of next().
SessionRaise ==
    /\ gen = "running" /\ pc = "Failed"
    /\ loop' = "closed"
    /\ gen' = "raised"
    /\ failure' = exc
    /\ UNCHANGED <<sentences, idx, pc, conns, rx, audio_buffer, exc, returned,
                   yielded, requested, delivered, call>>

-----------------------------------------------------------------------------
(* validate_credentials *)

\* Mutant of ValidateReturn: the first buffer is pulled before returning.
ValidatePullsFirst ==
    /\ call = "validate"
    /\ gen = "created"
    /\ requested' = requested + 1
    /\ Iterate(1)
    /\ UNCHANGED <<sentences, conns, returned, yielded, failure, delivered, call>>

\* Lines 98-108: the generator _invoke returned is not bound to anything and
\* is dropped without a single next(); no exception, so the method returns.
ValidateReturn ==
    /\ call = "validate"
    /\ gen = "created"
    /\ gen' = "closed"
    /\ call' = "validated"
    /\ UNCHANGED <<sentences, idx, loop, pc, conns, rx, audio_buffer, exc,
                   returned, yielded, requested, failure, delivered>>

-----------------------------------------------------------------------------
(* The state machine *)

\* _invoke has created the generator; nothing of its body has run.  The
\* call came from a consumer of the audio or from validate_credentials, whose
\* input is the fixed text "Hello Dify!", cut into sentences like any other.
Init ==
    /\ sentences \in SentenceLists
    /\ gen = "created"
    /\ idx = 0
    /\ loop = "none"
    /\ pc = "none"
    /\ conns = <<>>
    /\ rx = <<>>
    /\ audio_buffer = <<>>
    /\ exc = NoExc
    /\ returned = <<>>
    /\ yielded = <<>>
    /\ requested = 0
    /\ failure = NoExc
    /\ delivered = 0
    /\ call \in {"invoke", "validate"}

Next ==
    \/ GenStart
    \/ GenResume
    \/ GenClose
    \/ ConnectOk
    \/ ConnectRefused
    \/ SendOk
    \/ SendFails
    \/ Recv
    \/ RecvFails
    \/ AExit
    \/ SessionReturn
    \/ SessionRaise
    \/ ValidateReturn

Spec == Init /\ [][Next]_vars

-----------------------------------------------------------------------------
(* The decoder on its own: one session in its receive loop, fed one frame out
   of every message type, flags and compression nibble *)

\* Payloads: empty, one byte, and sequence numbers 1, -1, -2^31, 2^31 - 1
\* and 0 with a size and audio bytes.
WidePayloads ==
    { <<>>,
      <<255>>,
      <<0, 0, 0, 1, 0, 0, 0, 1, 161>>,
      <<255, 255, 255, 255, 0, 0, 0, 1, 163>>,
      <<128, 0, 0, 0, 0, 0, 0, 1, 164>>,
      <<127, 255, 255, 255, 0, 0, 0, 1, 162>>,
      <<0, 0, 0, 0>> }

\* One-word headers with every value of the second byte (message type and
\* flags) and of the compression nibble, before each payload.  An error
\* frame's code is kept below 2^31.
WideFrames ==
    { f \in { <<17, b, 16 + c, 0>> \o p :
                b \in 0..255, c \in 0..15, p \in WidePayloads } :
        (MessageType(f) = MSG_ERROR) => (Len(f) = 4 \/ f[5] < 128) }

\* A session of a one-sentence input in its receive loop: the request is
\* sent, nothing or one audio frame has been received.
ParseInit ==
    /\ sentences = << <<65>> >>
    /\ gen = "running"
    /\ idx = 1
    /\ loop = "open"
    /\ pc = "Receiving"
    /\ conns = << [chunk |-> 1, text |-> <<65>>, st |-> "open",
                   sent |-> <<FullClientRequest(<<65>>)>>] >>
    /\ \/ rx = <<>> /\ audio_buffer = <<>> /\ delivered = 0
       \/ /\ rx = <<AudioFrame(1, 1, 1, <<161>>)>>
          /\ audio_buffer = <<161>>
          /\ delivered = 1
    /\ exc = NoExc
    /\ returned = <<>>
    /\ yielded = <<>>
    /\ requested = 1
    /\ failure = NoExc
    /\ call = "invoke"

\* One turn of the receive loop on a frame of WideFrames.
RecvWide ==
    /\ gen = "running" /\ pc = "Receiving"
    /\ rx \in {<<>>, <<AudioFrame(1, 1, 1, <<161>>)>>}
    /\ \E response \in WideFrames : Deliver(response)
    /\ delivered' = delivered + 1
    /\ UNCHANGED <<sentences, gen, idx, loop, conns, returned, yielded,
                   requested, failure, call>>

ParseNext ==
    \/ RecvWide
    \/ RecvFails
    \/ AExit
    \/ SessionReturn
    \/ SessionRaise

ParseSpec == ParseInit /\ [][ParseNext]_vars

\* The event loop runs the session's coroutine to completion (line 159,
\* run_until_complete): once the receive loop is left, the `async with`
\* block is exited.  Nothing is assumed of the server or of the consumer.
FairSpec == Init /\ [][Next]_vars /\ WF_vars(AExit)

-----------------------------------------------------------------------------
(* Vocabulary of the properties *)

\* The frame the session received last, if any.
HasRx == rx # <<>>
LastRx == rx[Len(rx)]

\* A frame long enough for the decoder to read its header.
Decodable(f) == Len(f) >= 3

\* An audio response that carries a sequence number whose sign bit is set.
IsFinalAudio(f) ==
    /\ Decodable(f)
    /\ MessageType(f) = MSG_AUDIO
    /\ MessageFlags(f) # 0
    /\ Payload(f) # <<>>
    /\ Payload(f)[1] >= 128

\* The session of the chunk at position idx has handed no buffer to anyone.
NoBufferForCurrentChunk ==
    /\ Len(yielded) = idx - 1
    /\ \A j \in 1..Len(returned) : returned[j].chunk # idx

\* "Error code 45000001: no" as bytes.
InvalidTokenDescription ==
    <<69, 114, 114, 111, 114, 32, 99, 111, 100, 101, 32,
      52, 53, 48, 48, 48, 48, 48, 49, 58, 32, 110, 111>>

-----------------------------------------------------------------------------
(* Properties *)

\* C1: the buffers come out one per chunk and in chunk order: the k-th buffer
\* yielded is the audio the k-th session returned, that session was sent the
\* k-th sentence, and a generator that runs to its end (every session
\* succeeded) has yielded exactly as many buffers as there are sentences.
C1_YieldsInChunkOrder ==
    /\ Len(yielded) = Len(returned)
    /\ Len(yielded) <= Len(sentences)
    /\ \A k \in 1..Len(yielded) :
         /\ returned[k].chunk = k
         /\ returned[k].text = sentences[k]
         /\ yielded[k] = returned[k].audio
    /\ gen = "finished" => Len(yielded) = Len(sentences)

\* C1 witness: a two-sentence input consumed to the end, with two different
\* buffers.
C1_Witness ==
    /\ gen = "finished"
    /\ Len(sentences) = 2
    /\ Len(yielded) = 2
    /\ yielded[1] # yielded[2]

\* C2: at most one connection is open at any time, and every connection but
\* the newest is closed: the connection of one chunk's session is closed
\* before the next chunk's connection is opened, chunk after chunk.
C2_OneConnectionAtATime ==
    /\ Cardinality(OpenConns) <= 1
    /\ \A j \in 1..Len(conns) :
         j < Len(conns) =>
            /\ conns[j].st = "closed"
            /\ conns[j].chunk < conns[j + 1].chunk

\* C2 witness: the second chunk's connection is open, the first one's closed.
C2_Witness ==
    /\ Len(conns) = 2
    /\ conns[1].st = "closed"
    /\ conns[2].st = "open"

\* C3: whenever control is outside the session (the coroutine has finished
\* or the generator is not running), no connection is open, whichever way
\* the session ended.
C3_ConnectionClosedOnEveryExit ==
    (pc \in {"none", "Idle", "Done", "Failed"} \/ gen # "running")
        => OpenConns = {}

\* C3 witness: a session left by an exception raised while decoding a frame
\* in the receive loop, its connection closed.
C3_Witness ==
    /\ pc = "Failed"
    /\ exc.kind \in {"BadGzipFile", "EOFError", "UnicodeDecodeError", "IndexError"}
    /\ conns # <<>>
    /\ conns[Len(conns)].st = "closed"

\* C4: once the session of chunk k has failed, the generator is either about
\* to raise or has raised that very exception to the caller, no buffer was
\* yielded for chunk k, and no connection belongs to a later chunk.
C4_FailureStopsTheSequence ==
    pc = "Failed" =>
        /\ gen \in {"running", "raised"}
        /\ exc # NoExc
        /\ (gen = "raised" => failure = exc)
        /\ NoBufferForCurrentChunk
        /\ \A j \in 1..Len(conns) : conns[j].chunk <= idx

\* C4 witness: the first of two chunks failed and the failure reached the caller.
C4_Witness ==
    /\ pc = "Failed"
    /\ gen = "raised"
    /\ idx = 1
    /\ Len(sentences) = 2
    /\ failure # NoExc

\* C5: after an error frame the session is failing or has failed, no buffer
\* is handed over for the chunk, and the exception of a well-formed error
\* frame (plain or gzip-compressed) names exactly the code and the message
\* the frame was built from.
C5_ErrorFrameFailsWithCodeAndMessage ==
    (HasRx /\ Decodable(LastRx) /\ MessageType(LastRx) = MSG_ERROR) =>
        /\ pc \in {"Closing", "Failed"}
        /\ exc # NoExc
        /\ NoBufferForCurrentChunk
        /\ (gen = "raised" => failure = exc)
        /\ \A code \in {3001, 45000001} : \A msg \in {<<110, 111>>} :
             (LastRx \in {ErrorFrame(0, code, msg), ErrorFrame(1, code, GzipCompress(msg))})
                => /\ exc.kind = "InvokeBadRequestError"
                   /\ exc.description = ErrorDescription(code, msg)
        /\ (LastRx = ErrorFrame(0, 45000001, <<110, 111>>)
                => exc.description = InvalidTokenDescription)

\* C5 witness: an error frame after audio was accumulated, surfaced to the
\* caller with its code and message.
C5_Witness ==
    /\ HasRx
    /\ LastRx = ErrorFrame(0, 45000001, <<110, 111>>)
    /\ audio_buffer # <<>>
    /\ gen = "raised"
    /\ failure.description = InvalidTokenDescription

\* C6: an audio frame with a sequence number whose sign is negative ends the
\* session without failure, whatever came before it, and it is the last
\* frame read: no earlier frame of the session is such a frame.
C6_NegativeSequenceEndsSession ==
    /\ (HasRx /\ IsFinalAudio(LastRx)) => (pc \in {"Closing", "Done"} /\ exc = NoExc)
    /\ \A i \in 1..Len(rx) : i < Len(rx) => ~IsFinalAudio(rx[i])

\* C6 witness: Done after an acknowledgment, a non-final audio frame and then
\* a final one.
C6_Witness ==
    /\ pc = "Done"
    /\ Len(rx) = 3
    /\ rx[1] \in AckFrames
    /\ rx[2] \in ContinuingAudioFrames
    /\ IsFinalAudio(rx[3])

\* C7: after a frontend frame the session is still receiving.
C7_FrontendFrameContinues ==
    (HasRx /\ Decodable(LastRx) /\ MessageType(LastRx) = MSG_FRONTEND)
        => pc = "Receiving"

\* C8: after an audio frame whose payload is shorter than it declares, the
\* session is failing or has failed.
C8_ShortAudioIsMalformed ==
    (HasRx /\ LastRx \in ShortAudioFrames)
        => (pc \in {"Closing", "Failed"} /\ exc # NoExc)

\* C9: sessions are started by pulls only: the sessions started and the
\* connections attempted never outnumber the next() calls, a generator that
\* is suspended or was closed has started exactly as many sessions as it has
\* yielded buffers, and a closed generator leaves no connection open.
C9_PullDriven ==
    /\ idx <= requested
    /\ Len(conns) <= requested
    /\ (gen \in {"suspended", "closed"} =>
            /\ idx = Len(yielded)
            /\ Len(conns) = Len(yielded)
            /\ OpenConns = {})

\* C9 witness: the caller took one buffer of two and stopped.
C9_Witness ==
    /\ gen = "closed"
    /\ Len(sentences) = 2
    /\ Len(yielded) = 1
    /\ Len(conns) = 1

\* C10: with no sentences, no connection is attempted, nothing is sent,
\* nothing is yielded and nothing fails; the first pull ends the sequence.
C10_EmptyInputNoNetwork ==
    sentences = <<>> =>
        /\ conns = <<>>
        /\ yielded = <<>>
        /\ failure = NoExc
        /\ gen \in {"created", "finished", "closed"}
        /\ (requested > 0 => gen = "finished")

\* C10 witness: the empty input consumed to its end.
C10_Witness ==
    /\ sentences = <<>>
    /\ gen = "finished"
    /\ requested = 1

\* Exceptions of the transport: connect refused, connection reset or closed.
TransportKinds == {"ConnectionRefused", "ConnectionClosed"}

\* A frame the decoder takes for the end of the stream.
EndsStream(f) ==
    IsFinalAudio(f) \/ (Decodable(f) /\ MessageType(f) = MSG_FRONTEND)

\* C11: a transport failure (connect refused, send or recv on a closed
\* connection) fails the session: the exception reaches the caller, no buffer
\* is handed over for the chunk, a session ends Done only on a frame that
\* ends the stream, and no chunk gets a second connection attempt.
C11_TransportFailureFails ==
    /\ (exc.kind \in TransportKinds) =>
            /\ pc \in {"Closing", "Failed"}
            /\ gen \in {"running", "raised"}
            /\ (gen = "raised" => failure = exc)
            /\ NoBufferForCurrentChunk
    /\ (pc = "Done") => (HasRx /\ EndsStream(LastRx))
    /\ \A j, k \in 1..Len(conns) : j # k => conns[j].chunk # conns[k].chunk

\* C11 witness: the connection closed after audio had been accumulated; the
\* failure reached the caller and the second chunk was never tried.
C11_Witness ==
    /\ gen = "raised"
    /\ failure.kind = "ConnectionClosed"
    /\ audio_buffer # <<>>
    /\ Len(sentences) = 2
    /\ Len(conns) = 1
    /\ yielded = <<>>

\* The frames sent on the newest connection.
SentNow == IF conns = <<>> THEN <<>> ELSE conns[Len(conns)].sent

\* C14: every request frame sent is the header 11 10 11 00 (version 1,
\* header size 1, full client request, no flags, JSON, gzip, reserved 0),
\* then the big-endian length of the rest of the frame, then the gzip of the
\* JSON of the request of that connection's sentence: 8 + len(payload) bytes.
C14_RequestFrameLayout ==
    \A j \in 1..Len(conns) : \A i \in 1..Len(conns[j].sent) :
        LET f == conns[j].sent[i]
            payload == SubSeq(f, 9, Len(f))
        IN  /\ Len(f) >= 8
            /\ Len(f) = 8 + Len(payload)
            /\ SubSeq(f, 1, 4) = <<17, 16, 17, 0>>
            /\ f[1] \div 16 = 1 /\ f[1] % 16 = 1
            /\ f[2] \div 16 = 1 /\ f[2] % 16 = 0
            /\ f[3] \div 16 = 1 /\ f[3] % 16 = 1
            /\ f[4] = 0
            /\ ((f[5] * 256 + f[6]) * 256 + f[7]) * 256 + f[8] = Len(payload)
            /\ GzipOk(payload)
            /\ GzipDecompress(payload) = JsonDumps(sentences[conns[j].chunk])

\* C14 witness: both sessions of a two-sentence input have sent their request.
C14_Witness ==
    /\ Len(conns) = 2
    /\ conns[1].sent # <<>>
    /\ conns[2].sent # <<>>
    /\ conns[1].sent # conns[2].sent

\* The error kinds of the design, as classes of the exceptions the code raises.
ErrorKind(e) ==
    IF e.kind = "InvokeBadRequestError" THEN "ServerError"
    ELSE IF e.kind \in TransportKinds THEN "TransportFailure"
    ELSE IF e.kind \in {"BadGzipFile", "EOFError", "UnicodeDecodeError", "IndexError"}
    THEN "MalformedFrame"
    ELSE "none"

\* An error frame that declares gzip and whose message does not decompress.
IsBadGzipError(f) ==
    /\ Decodable(f)
    /\ MessageType(f) = MSG_ERROR
    /\ MessageCompression(f) = COMPRESSION_GZIP
    /\ LET m == SliceFrom(Payload(f), 8)
       IN  m # <<>> /\ (SubSeq(m, 1, Min(2, Len(m))) # <<31, 139>> \/ m[Len(m)] # 0
                          \/ Len(m) < 3)

\* C15: after an error frame whose gzip message does not decompress, the
\* session is failing or has failed with a decoding exception, which is
\* neither the server-error exception nor a transport exception, and no
\* buffer is handed over for the chunk.
C15_BadGzipErrorIsMalformedFrame ==
    (HasRx /\ IsBadGzipError(LastRx)) =>
        /\ pc \in {"Closing", "Failed"}
        /\ ErrorKind(exc) = "MalformedFrame"
        /\ exc.kind \in {"BadGzipFile", "EOFError"}
        /\ (gen = "raised" => failure = exc)
        /\ NoBufferForCurrentChunk

\* C15 witness: such a frame after accumulated audio, surfaced to the caller.
C15_Witness ==
    /\ HasRx
    /\ IsBadGzipError(LastRx)
    /\ gen = "raised"
    /\ failure.kind = "BadGzipFile"
    /\ audio_buffer # <<>>

\* The audio bytes of a frame: the payload after the 8 bytes of sequence
\* number and size of an audio response that carries a sequence number.
AudioOf(f) ==
    IF Decodable(f) /\ MessageType(f) = MSG_AUDIO /\ MessageFlags(f) # 0
    THEN SubSeq(f, 4 * (f[1] % 16) + 9, Len(f))
    ELSE <<>>

RECURSIVE AudioOfFrames(_)
AudioOfFrames(fs) ==
    IF fs = <<>> THEN <<>>
    ELSE AudioOfFrames(SubSeq(fs, 1, Len(fs) - 1)) \o AudioOf(fs[Len(fs)])

\* C16: the accumulator always equals the audio bytes of the audio frames
\* received so far in this session, in arrival order, and nothing else; the
\* buffer a session returns is that accumulator, and each chunk has at most
\* one returned buffer.
C16_AccumulatorIsConcatenation ==
    /\ audio_buffer = AudioOfFrames(rx)
    /\ (pc = "Done" /\ gen # "running") =>
            /\ returned # <<>>
            /\ returned[Len(returned)].chunk = idx
            /\ returned[Len(returned)].audio = AudioOfFrames(rx)
            /\ yielded[Len(yielded)] = AudioOfFrames(rx)
    /\ \A j, k \in 1..Len(returned) : j # k => returned[j].chunk # returned[k].chunk

\* C16 witness: two audio frames with another frame between them, returned
\* as one two-byte buffer.
C16_Witness ==
    /\ pc = "Done"
    /\ gen = "suspended"
    /\ Len(rx) = 3
    /\ rx[1] \in ContinuingAudioFrames
    /\ rx[2] \in AckFrames \cup UnknownFrames
    /\ IsFinalAudio(rx[3])
    /\ Len(yielded[Len(yielded)]) = 2

\* The steps a session may take.
SessionSteps ==
    { <<"none", "Idle">>, <<"Idle", "Sending">>, <<"Idle", "Failed">>,
      <<"Sending", "Receiving">>, <<"Sending", "Closing">>,
      <<"Receiving", "Receiving">>, <<"Receiving", "Closing">>,
      <<"Closing", "Done">>, <<"Closing", "Failed">>,
      <<"Done", "Idle">> }

\* What holds of the request and the frames read in every state of a session.
RequestThenDrain ==
    /\ \A j \in 1..Len(conns) : Len(conns[j].sent) <= 1
    /\ (pc \in {"none", "Idle", "Sending"}) => rx = <<>>
    /\ (pc = "Sending") => SentNow = <<>>
    /\ (pc \in {"Receiving", "Done"} \/ HasRx) => Len(SentNow) = 1

\* What a step may change: the session moves along SessionSteps, nothing is
\* sent on a connection once its session is receiving or has ended, and
\* nothing is received after Done or Failed (the next session starts anew).
DrainStep ==
    /\ (pc' # pc \/ rx' # rx) => <<pc, pc'>> \in SessionSteps
    /\ (pc \in {"Receiving", "Closing", "Done", "Failed"}) =>
            \A j \in 1..Len(conns) : conns'[j].sent = conns[j].sent
    /\ (pc \in {"Closing", "Done", "Failed"}) => (rx' = rx \/ (rx' = <<>> /\ pc' = "Idle"))
    /\ (pc = "Failed") => pc' = "Failed"

\* C17: a session is request-then-drain: one request frame per session, sent
\* before anything is received, nothing sent while or after receiving, and
\* no send or receive after Done or Failed.
C17_RequestThenDrain == [](RequestThenDrain) /\ [][DrainStep]_vars

\* C17 witness: a session that sent its request, read three frames and ended.
C17_Witness ==
    /\ pc = "Done"
    /\ Len(rx) = 3
    /\ Len(SentNow) = 1

\* C19: while validate_credentials holds the generator and after it has
\* returned, nothing of the generator's body has run: no pull, no event
\* loop, no session, no connection attempt, no frame sent, no failure.
C19_ValidateNeverConnects ==
    (call # "invoke") =>
        /\ requested = 0
        /\ gen \in {"created", "closed"}
        /\ loop = "none"
        /\ pc = "none"
        /\ conns = <<>>
        /\ yielded = <<>>
        /\ exc = NoExc
        /\ failure = NoExc

\* C19 witness: validate_credentials has returned for a text with a sentence.
C19_Witness ==
    /\ call = "validated"
    /\ gen = "closed"
    /\ sentences # <<>>

\* A frame has just been received in this step.
Received == rx' # rx /\ rx' # <<>>
JustRx == rx'[Len(rx')]

\* The session goes on receiving, its accumulator as it was.
ContinuesUnchanged ==
    /\ pc' = "Receiving"
    /\ audio_buffer' = audio_buffer
    /\ exc' = NoExc

\* C12: receiving a frame whose message type is not audio, error or
\* frontend leaves the session receiving, the accumulator unchanged and
\* raises nothing, whatever its flags, compression and payload.
C12_UnknownTypeIsNoOp ==
    [][ (/\ Received
         /\ Decodable(JustRx)
         /\ MessageType(JustRx) \notin {MSG_AUDIO, MSG_ERROR, MSG_FRONTEND})
        => ContinuesUnchanged ]_vars

\* C12 witness: an unknown-type frame with flags 15, gzip declared and a
\* payload that reads as sequence number -1, received after audio.
C12_Witness ==
    /\ Len(rx) = 2
    /\ LastRx = <<17, 9 * 16 + 15, 17, 0>> \o <<255, 255, 255, 255, 0, 0, 0, 1, 163>>
    /\ pc = "Receiving"
    /\ audio_buffer = <<161>>

\* C13: receiving an audio frame with flags 0 leaves the session receiving
\* and the accumulator unchanged, whatever its payload.
C13_AckIsNoOp ==
    [][ (/\ Received
         /\ Decodable(JustRx)
         /\ MessageType(JustRx) = MSG_AUDIO
         /\ MessageFlags(JustRx) = 0)
        => ContinuesUnchanged ]_vars

\* C13 witness: an acknowledgment whose payload reads as sequence number -1
\* with an audio byte, received after audio.
C13_Witness ==
    /\ Len(rx) = 2
    /\ LastRx = <<17, 176, 16, 0>> \o <<255, 255, 255, 255, 0, 0, 0, 1, 163>>
    /\ pc = "Receiving"
    /\ audio_buffer = <<161>>

\* C18: receiving an audio frame with flags 1, 2 or 3 and a four-byte
\* sequence number ends the stream exactly when the sign bit of the sequence
\* number is set, and otherwise leaves the session receiving.
C18_FinalBySignOnly ==
    [][ (/\ Received
         /\ Decodable(JustRx)
         /\ MessageType(JustRx) = MSG_AUDIO
         /\ MessageFlags(JustRx) \in {1, 2, 3}
         /\ Len(Payload(JustRx)) >= 4)
        => /\ exc' = NoExc
           /\ pc' = IF Payload(JustRx)[1] >= 128 THEN "Closing" ELSE "Receiving" ]_vars

\* C18 witness: flags 3 ("sequence number < 0") with sequence number
\* 2^31 - 1 did not end the session.
C18_Witness ==
    /\ HasRx
    /\ LastRx = <<17, 179, 16, 0>> \o <<127, 255, 255, 255, 0, 0, 0, 1, 162>>
    /\ pc = "Receiving"

\* The step takes the session out of its receive loop.
LeavesReceiving == pc = "Receiving" /\ pc' # "Receiving"

\* The step is a failed recv: no frame, a transport exception.
TransportFailureNow == rx' = rx /\ exc'.kind \in TransportKinds

\* The step received a frame of one of the listed kinds: a negative-sequence
\* audio frame, a frontend frame or an error frame.
ListedFrameNow ==
    /\ Received
    /\ \/ EndsStream(JustRx)
       \/ Decodable(JustRx) /\ MessageType(JustRx) = MSG_ERROR

\* The step received a frame too short to hold the header bytes the decoder
\* reads, and the decoder raised IndexError.
UndecodableFrameNow ==
    /\ Received
    /\ ~Decodable(JustRx)
    /\ exc'.kind = "IndexError"

\* The step received an acknowledgment, non-final audio or a frame of an
\* unknown type.
ContinueFrameNow ==
    /\ Received
    /\ Decodable(JustRx)
    /\ MessageType(JustRx) # MSG_ERROR
    /\ ~EndsStream(JustRx)

\* C20 as stated: the session leaves Receiving only on a negative-sequence
\* audio frame, a frontend frame, an error frame or a transport failure.
C20_LeavesReceivingOnlyAsListed ==
    [][ LeavesReceiving => (ListedFrameNow \/ TransportFailureNow) ]_vars

\* C20, amended: the session leaves Receiving only on a negative-sequence
\* audio frame, a frontend frame, an error frame, a transport failure or a
\* frame too short to decode; a step of Receiving is a recv and nothing else
\* (no timeout); an acknowledgment, non-final audio or unknown-type frame
\* keeps the session in Receiving with nothing yielded, so that while the
\* session is in Receiving its chunk and the later ones are not yielded;
\* and once the receive loop is left the session reaches Done or Failed with
\* every connection closed.
C20_LeavesReceivingOnlyOnEndOrFailure ==
    /\ [][ LeavesReceiving =>
              (ListedFrameNow \/ TransportFailureNow \/ UndecodableFrameNow) ]_vars
    /\ [][ (pc = "Receiving" /\ pc' = "Receiving") => ContinueFrameNow ]_vars
    /\ [][ ContinueFrameNow =>
              /\ pc' = "Receiving"
              /\ exc' = NoExc
              /\ gen' = gen
              /\ yielded' = yielded
              /\ returned' = returned ]_vars
    /\ [](pc = "Receiving" => (gen = "running" /\ NoBufferForCurrentChunk))
    /\ (pc = "Closing") ~> (pc \in {"Done", "Failed"} /\ OpenConns = {})

\* C20 witness: after as many frames as the server may send, the last one a
\* single byte, the session failed with IndexError and closed its connection.
C20_Witness ==
    /\ Len(rx) = MaxFrames
    /\ ~Decodable(LastRx)
    /\ pc = "Failed"
    /\ exc.kind = "IndexError"
    /\ OpenConns = {}

====
